---- MODULE Spec2Model ----
(***************************************************************************)
(* ObjectsTracker: the synthetic radar scene generator (DataGenerator),    *)
(* the Otsu threshold selector (Histogram) and the connected component     *)
(* labeler (ConnectedComponentLabeling), each as a state machine.          *)
(*                                                                         *)
(* Python indexes from 0 and TLA+ sequences from 1: frame_shape[dim] of    *)
(* the source is frame_shape[dim + 1] here, objects[i][0] is               *)
(* objects[i + 1][1], and so on.                                           *)
(***************************************************************************)
EXTENDS Integers, Sequences, FiniteSets, TLC

VARIABLES
    \* ---- DataGenerator (data_generator.py) ----
    frame_shape,      \* self.frame_shape = (height, width)
    object_radius,    \* self.object_radius
    max_objects,      \* self.max_objects
    velocity_range,   \* self.velocity_range = (vmin, vmax)
    shapes_arg,       \* the shapes tuple the caller passed to __init__
    shapes,           \* self.shapes
    objects,          \* self.objects: sequence of <<p0, p1>>
    velocities,       \* self.velocities: sequence of <<v0, v1>>
    object_shapes,    \* self.object_shapes
    num_frames,       \* argument of generate_frames
    initial_objects,  \* argument of generate_frames
    t,                \* loop variable of generate_frames
    frames,           \* len(frames) of generate_frames
    injected,         \* indices of the objects appended by the loop (history)
    new_object,       \* local of generate_frames (line 107), <<>> before it is set
    pc,               \* "constructed" | "loop" | "returned" | "raised"
    raised,           \* the exception that left generate_frames, or "none"
    \* ---- background noise of one frame (data_generator.py, line 76) ----
    noise_samples,    \* the normal samples drawn so far, in halves of a unit
    noise_frame,      \* the uint8 pixels stored for them
    \* ---- Histogram (histogram.py) ----
    matrix,           \* argument of __init__: [(0..w-1) \X (0..h-1) -> 0..255]
    w,                \* argument of __init__
    h,                \* argument of __init__
    N,                \* self.N
    number,           \* self.number: the histogram, held on its populated buckets
    intensity,        \* self.intensity
    result,           \* locals of get_treshold
    best_var,
    mean_bg,
    weight_bg,
    mean_fg,
    weight_fg,
    current_treshold,
    treshold,         \* self.treshold, "unset" until __init__ assigns it
    otsu_pc,          \* "new" | "scan" | "returned" | "raised"
    otsu_raised,      \* the exception that left __init__, or "none"
    \* ---- ConnectedComponentLabeling (ccl.py) ----
    binary_image,     \* self.binary_image: [shape |-> <<rows, cols>>, data |-> pixels]
    labels,           \* self.labels: NoLabels (None) or [pixels -> Nat]
    num_labels,       \* self.num_labels
    blobs,            \* what the last get_blobs returned
    blobs_state,      \* "none" | "unlabeled" | "labeled": self.labels at that call
    num_blobs,        \* what the last count_blobs returned
    num_blobs_state,  \* "none" | "unlabeled" | "labeled": self.labels at that call
    \* ---- RadarSimulation (simulation.py) ----
    sim_frames,        \* self.frames: which generated list it is (0, 1, ...)
    current_frame_idx, \* self.current_frame_idx
    animation_running, \* self.animation_running
    otsu_applied,      \* self.otsu_applied
    image,             \* data of self.image: <<"frame" | "otsu", list, index>>
    title,             \* title of self.ax
    frame_seq,         \* self.ani.frame_seq: the next index it yields
    timer,             \* self.ani.event_source is running
    main_pc,           \* the GUI thread: "idle", or "resume" inside resume_simulation
    workers,           \* the live threads running apply_otsu_async
    accepted           \* the frame that was current when apply_otsu last started a worker (history)

genVars == <<frame_shape, object_radius, max_objects, velocity_range, shapes_arg,
             shapes, objects, velocities, object_shapes, num_frames,
             initial_objects, t, frames, injected, new_object, pc, raised>>

noiseVars == <<noise_samples, noise_frame>>

otsuVars == <<matrix, w, h, N, number, intensity, result, best_var, mean_bg,
              weight_bg, mean_fg, weight_fg, current_treshold, treshold,
              otsu_pc, otsu_raised>>

cclVars == <<binary_image, labels, num_labels, blobs, blobs_state, num_blobs,
             num_blobs_state>>

simVars == <<sim_frames, current_frame_idx, animation_running, otsu_applied,
             image, title, frame_seq, timer, main_pc, workers, accepted>>

vars == <<genVars, noiseVars, otsuVars, cclVars, simVars>>

\* what the steps of one component leave alone
genOthers == <<noiseVars, otsuVars, cclVars, simVars>>
noiseOthers == <<genVars, otsuVars, cclVars, simVars>>
otsuOthers == <<genVars, noiseVars, cclVars, simVars>>
cclOthers == <<genVars, noiseVars, otsuVars, simVars>>
simOthers == <<genVars, noiseVars, otsuVars, cclVars>>

Min(a, b) == IF a <= b THEN a ELSE b
Max(a, b) == IF a >= b THEN a ELSE b

(***************************************************************************)
(* Bounds of the generator model.                                          *)
(***************************************************************************)
MaxFrames == 6
FrameShapes == {<<4, 4>>, <<4, 5>>}
Radii == {1, 2}
MaxObjectsChoices == {0, 1, 2}
InitialCounts == {0, 1}
VelocityRanges == {<<-1, 1>>, <<1, 0>>}
ShapeArgs == {<<"circle">>}
NumFramesChoices == {0, 3, MaxFrames}

\* generate_frames injects when t % 5 == 0
InjectionInterval == 5

\* the shapes __init__ always appends to the caller's tuple
AppendedShapes == <<"triangle", "square", "ellipse">>

Range(s) == {s[i] : i \in 1..Len(s)}

\* np.random.randint(low, high, size=...) draws from [low, high).  It raises
\* ValueError("low >= high") when the interval is empty; for an empty size
\* numpy's bounded-integer routine may return the empty array before it
\* looks at the interval (emptyOk), depending on the numpy release.
randint_raises(low, high, size, emptyOk) ==
    low >= high /\ ~(size = 0 /\ emptyOk)

randint(low, high) == low .. (high - 1)

\* np.clip(a, lo, hi) = minimum(maximum(a, lo), hi)
clip(a, lo, hi) == Min(Max(a, lo), hi)

\* _generate_frame, lines 83-86, for one axis: <<position, velocity>> after
\* the bounce test
bounce(p, v, dimension) ==
    IF p - object_radius < 0 \/ p + object_radius >= dimension
    THEN <<clip(p, object_radius, dimension - object_radius), -v>>
    ELSE <<p, v>>

\* _generate_frame, lines 80-86, for one object: <<position, velocity>>
move(pos, vel) ==
    LET b0 == bounce(pos[1] + vel[1], vel[1], frame_shape[1])
        b1 == bounce(pos[2] + vel[2], vel[2], frame_shape[2])
    IN  <<(<<b0[1], b1[1]>>), (<<b0[2], b1[2]>>)>>

\* all sequences of length n over S
SeqsOf(S, n) == [1..n -> S]

GenStart ==
    /\ frame_shape \in FrameShapes
    /\ object_radius \in Radii
    /\ max_objects \in MaxObjectsChoices
    /\ velocity_range \in VelocityRanges
    /\ shapes_arg \in ShapeArgs
    /\ shapes = shapes_arg \o AppendedShapes
    /\ objects = <<>>
    /\ velocities = <<>>
    /\ object_shapes = <<>>
    /\ num_frames = 0
    /\ initial_objects = 0
    /\ t = 0
    /\ frames = 0
    /\ injected = {}
    /\ new_object = <<>>
    /\ pc = "constructed"
    /\ raised = "none"

\* generate_frames up to its loop: _initialize_objects(k) succeeds
InitializeObjects ==
    /\ pc = "constructed"
    /\ \E n \in NumFramesChoices, k \in InitialCounts, emptyOk \in BOOLEAN :
        /\ ~randint_raises(object_radius, frame_shape[1] - object_radius, k, emptyOk)
        /\ ~randint_raises(object_radius, frame_shape[2] - object_radius, k, emptyOk)
        /\ ~randint_raises(velocity_range[1], velocity_range[2] + 1, 2 * k, emptyOk)
        /\ num_frames' = n
        /\ initial_objects' = k
        /\ \E ps \in SeqsOf(randint(object_radius, frame_shape[1] - object_radius)
                            \X randint(object_radius, frame_shape[2] - object_radius), k),
              vs \in SeqsOf(randint(velocity_range[1], velocity_range[2] + 1)
                            \X randint(velocity_range[1], velocity_range[2] + 1), k),
              ss \in SeqsOf(Range(shapes), k) :
            /\ objects' = ps
            /\ velocities' = vs
            /\ object_shapes' = ss
    /\ t' = 0
    /\ frames' = 0
    /\ pc' = "loop"
    /\ UNCHANGED <<frame_shape, object_radius, max_objects, velocity_range,
                   shapes_arg, shapes, injected, raised>>
    /\ UNCHANGED new_object
    /\ UNCHANGED genOthers

\* _initialize_objects raises at line 38: a position interval is empty
InitializeObjectsRaisesPosition ==
    /\ pc = "constructed"
    /\ \E n \in NumFramesChoices, k \in InitialCounts, emptyOk \in BOOLEAN :
        /\ \/ randint_raises(object_radius, frame_shape[1] - object_radius, k, emptyOk)
           \/ randint_raises(object_radius, frame_shape[2] - object_radius, k, emptyOk)
        /\ num_frames' = n
        /\ initial_objects' = k
    /\ pc' = "raised"
    /\ raised' = "ValueError"
    /\ UNCHANGED <<frame_shape, object_radius, max_objects, velocity_range,
                   shapes_arg, shapes, objects, velocities, object_shapes,
                   t, frames, injected>>
    /\ UNCHANGED new_object
    /\ UNCHANGED genOthers

\* _initialize_objects raises at line 41: self.objects is already assigned
InitializeObjectsRaisesVelocity ==
    /\ pc = "constructed"
    /\ \E n \in NumFramesChoices, k \in InitialCounts, emptyOk \in BOOLEAN :
        /\ ~randint_raises(object_radius, frame_shape[1] - object_radius, k, emptyOk)
        /\ ~randint_raises(object_radius, frame_shape[2] - object_radius, k, emptyOk)
        /\ randint_raises(velocity_range[1], velocity_range[2] + 1, 2 * k, emptyOk)
        /\ num_frames' = n
        /\ initial_objects' = k
        /\ \E ps \in SeqsOf(randint(object_radius, frame_shape[1] - object_radius)
                            \X randint(object_radius, frame_shape[2] - object_radius), k) :
            objects' = ps
    /\ pc' = "raised"
    /\ raised' = "ValueError"
    /\ UNCHANGED <<frame_shape, object_radius, max_objects, velocity_range,
                   shapes_arg, shapes, velocities, object_shapes,
                   t, frames, injected>>
    /\ UNCHANGED new_object
    /\ UNCHANGED genOthers

\* the condition of line 106
injection_due ==
    t > 0 /\ t % InjectionInterval = 0 /\ Len(objects) < max_objects

\* _generate_frame, lines 79-89: every object moved, in order
moved(objs, vels) == [i \in 1..Len(objs) |-> move(objs[i], vels[i])]

GenerateFrame(objs, vels, shps) ==
    LET m == moved(objs, vels) IN
    /\ objects' = [i \in 1..Len(objs) |-> m[i][1]]
    /\ velocities' = [i \in 1..Len(objs) |-> m[i][2]]
    /\ object_shapes' = shps
    /\ frames' = frames + 1
    /\ t' = t + 1

\* one iteration of the loop of generate_frames with no injection
Tick ==
    /\ pc = "loop"
    /\ t < num_frames
    /\ ~injection_due
    /\ GenerateFrame(objects, velocities, object_shapes)
    /\ UNCHANGED <<frame_shape, object_radius, max_objects, velocity_range,
                   shapes_arg, shapes, num_frames, initial_objects, injected,
                   pc, raised>>
    /\ UNCHANGED new_object
    /\ UNCHANGED genOthers

\* one iteration of the loop with an injection (lines 107-112), then the frame
TickInject ==
    /\ pc = "loop"
    /\ t < num_frames
    /\ injection_due
    /\ ~randint_raises(object_radius, frame_shape[2] - object_radius, 2, FALSE)
    /\ ~randint_raises(velocity_range[1], velocity_range[2] + 1, 2, FALSE)
    /\ \E p0, p1 \in randint(object_radius, frame_shape[2] - object_radius),
          v0, v1 \in randint(velocity_range[1], velocity_range[2] + 1),
          new_shape \in Range(shapes) :
        /\ new_object' = <<p0, p1>>
        /\ GenerateFrame(Append(objects, new_object'),
                         Append(velocities, <<v0, v1>>),
                         Append(object_shapes, new_shape))
    /\ injected' = injected \cup {Len(objects) + 1}
    /\ UNCHANGED <<frame_shape, object_radius, max_objects, velocity_range,
                   shapes_arg, shapes, num_frames, initial_objects, pc, raised>>
    /\ UNCHANGED genOthers

\* the injection raises at line 107: nothing of this iteration has happened
TickInjectRaisesPosition ==
    /\ pc = "loop"
    /\ t < num_frames
    /\ injection_due
    /\ randint_raises(object_radius, frame_shape[2] - object_radius, 2, FALSE)
    /\ pc' = "raised"
    /\ raised' = "ValueError"
    /\ UNCHANGED <<frame_shape, object_radius, max_objects, velocity_range,
                   shapes_arg, shapes, objects, velocities, object_shapes,
                   num_frames, initial_objects, t, frames, injected>>
    /\ UNCHANGED new_object
    /\ UNCHANGED genOthers

\* the injection raises at line 110: line 109 has appended the position
TickInjectRaisesVelocity ==
    /\ pc = "loop"
    /\ t < num_frames
    /\ injection_due
    /\ ~randint_raises(object_radius, frame_shape[2] - object_radius, 2, FALSE)
    /\ randint_raises(velocity_range[1], velocity_range[2] + 1, 2, FALSE)
    /\ \E p0, p1 \in randint(object_radius, frame_shape[2] - object_radius) :
        /\ new_object' = <<p0, p1>>
        /\ objects' = Append(objects, new_object')
    /\ injected' = injected \cup {Len(objects) + 1}
    /\ pc' = "raised"
    /\ raised' = "ValueError"
    /\ UNCHANGED <<frame_shape, object_radius, max_objects, velocity_range,
                   shapes_arg, shapes, velocities, object_shapes,
                   num_frames, initial_objects, t, frames>>
    /\ UNCHANGED genOthers

\* line 116
ReturnFrames ==
    /\ pc = "loop"
    /\ t = num_frames
    /\ pc' = "returned"
    /\ UNCHANGED <<frame_shape, object_radius, max_objects, velocity_range,
                   shapes_arg, shapes, objects, velocities, object_shapes,
                   num_frames, initial_objects, t, frames, injected, raised>>
    /\ UNCHANGED new_object
    /\ UNCHANGED genOthers

GenNext ==
    \/ InitializeObjects
    \/ InitializeObjectsRaisesPosition
    \/ InitializeObjectsRaisesVelocity
    \/ Tick
    \/ TickInject
    \/ TickInjectRaisesPosition
    \/ TickInjectRaisesVelocity
    \/ ReturnFrames

\* a generator that is constructed and never used
GenIdle ==
    /\ frame_shape = <<4, 4>>
    /\ object_radius = 1
    /\ max_objects = 0
    /\ velocity_range = <<-1, 1>>
    /\ shapes_arg = <<"circle">>
    /\ shapes = shapes_arg \o AppendedShapes
    /\ objects = <<>>
    /\ velocities = <<>>
    /\ object_shapes = <<>>
    /\ num_frames = 0
    /\ initial_objects = 0
    /\ t = 0
    /\ frames = 0
    /\ injected = {}
    /\ new_object = <<>>
    /\ pc = "constructed"
    /\ raised = "none"

(***************************************************************************)
(* One object in a 20x20 frame: the generator                              *)
(* DataGenerator(frame_shape=(20, 20), object_radius=2, max_objects=1,     *)
(* velocity_range=(-5, 5)) inside generate_frames(BounceFrames, 1), right  *)
(* after _initialize_objects has drawn the object.                         *)
(***************************************************************************)
BounceFrames == 2
BounceRows == {10}

BounceStart ==
    /\ frame_shape = <<20, 20>>
    /\ object_radius = 2
    /\ max_objects = 1
    /\ velocity_range = <<-5, 5>>
    /\ shapes_arg = <<"circle">>
    /\ shapes = shapes_arg \o AppendedShapes
    /\ \E p0 \in randint(object_radius, frame_shape[1] - object_radius),
          p1 \in BounceRows,
          v0, v1 \in randint(velocity_range[1], velocity_range[2] + 1) :
        /\ objects = <<(<<p0, p1>>)>>
        /\ velocities = <<(<<v0, v1>>)>>
    /\ object_shapes = <<"circle">>
    /\ num_frames = BounceFrames
    /\ initial_objects = 1
    /\ t = 0
    /\ frames = 0
    /\ injected = {}
    /\ new_object = <<>>
    /\ pc = "loop"
    /\ raised = "none"

BounceNext ==
    \/ Tick
    \/ ReturnFrames

(***************************************************************************)
(* Background noise: np.random.normal(...).astype(np.uint8), one pixel at  *)
(* a time.  A sample is a real number; the model holds it in halves of a   *)
(* unit, so that the truncation of astype is part of the conversion.       *)
(***************************************************************************)
NoisePixels == 2
\* -256.5, -1, -0.5, 0, 0.5, 120, 255, 255.5, 256, 300
NoiseSampleChoices == {-513, -2, -1, 0, 1, 240, 510, 511, 512, 600}

\* the float -> integer conversion truncates toward zero
trunc_half(s) == IF s >= 0 THEN s \div 2 ELSE -((-s) \div 2)

\* astype(np.uint8) of a sample: the values the stored pixel can take.  A
\* truncated value outside 0..255 is not representable and the C conversion is
\* undefined: an x86-64 build wraps it modulo 256, an AArch64 build saturates
\* a negative value to 0 and wraps a large one.
astype_uint8(s) ==
    LET v == trunc_half(s) IN
    IF v >= 0 /\ v <= 255 THEN {v}
    ELSE IF v < 0 THEN {v % 256, 0}
    ELSE {v % 256}

NoiseStart ==
    /\ noise_samples = <<>>
    /\ noise_frame = <<>>

NoiseIdle == NoiseStart

\* line 76 for the next pixel of the frame
SampleNoisePixel ==
    /\ Len(noise_frame) < NoisePixels
    /\ \E s \in NoiseSampleChoices :
        /\ noise_samples' = Append(noise_samples, s)
        /\ \E px \in astype_uint8(s) : noise_frame' = Append(noise_frame, px)
    /\ UNCHANGED noiseOthers

NoiseNext == SampleNoisePixel

(***************************************************************************)
(* Histogram: the Otsu threshold selector.  The means of get_treshold are  *)
(* Python floats; the model computes them exactly, as fractions <<n, d>>   *)
(* in lowest terms with d > 0.                                             *)
(***************************************************************************)
MaxPixels == 4
Levels == {0, 30, 200, 254, 255}
Intensities == 0..255

RECURSIVE GCD(_, _)
GCD(a, b) == IF b = 0 THEN a ELSE GCD(b, a % b)

Abs(a) == IF a < 0 THEN -a ELSE a

Frac(n, d) ==
    LET g == GCD(Abs(n), Abs(d))
        sgn == IF d < 0 THEN -1 ELSE 1
    IN  <<sgn * (n \div g), sgn * (d \div g)>>

FracSub(a, b) == Frac(a[1] * b[2] - b[1] * a[2], a[2] * b[2])
FracMul(a, b) == Frac(a[1] * b[1], a[2] * b[2])
FracOfInt(i) == <<i, 1>>
\* float('-inf')
NegInf == <<-1, 0>>
\* a > b, where b may be float('-inf')
FracGreater(a, b) == b = NegInf \/ (b # NegInf /\ a[1] * b[2] > b[1] * a[2])

\* The histogram is a list of 256 counts; the model holds the populated
\* buckets only and reads every other bucket as 0.
bucket(hist, v) == IF v \in DOMAIN hist THEN hist[v] ELSE 0

\* generate_histogram
generate_histogram(m, ww, hh) ==
    LET pixels == (0..(ww - 1)) \X (0..(hh - 1))
    IN  [v \in {m[xy] : xy \in pixels} |->
            Cardinality({xy \in pixels : m[xy] = v})]

\* the sum of i * hist[i] over the buckets of B
RECURSIVE SumOver(_, _)
SumOver(hist, B) ==
    IF B = {} THEN 0
    ELSE LET i == CHOOSE j \in B : TRUE
         IN  i * bucket(hist, i) + SumOver(hist, B \ {i})

\* calc_total_intensity: the empty buckets add nothing to the sum
calc_total_intensity(hist) ==
    SumOver(hist, {i \in Intensities : bucket(hist, i) # 0})

\* the inner while of get_treshold (lines 47-48): the index it stops at, the
\* first one from c on that is 255 or a populated bucket
skip_empty(hist, c) ==
    IF c >= 255 THEN c
    ELSE CHOOSE k \in c..255 :
            /\ k = 255 \/ bucket(hist, k) # 0
            /\ \A j \in c..(k - 1) : bucket(hist, j) = 0

\* lines 40-41
variance_at(wbg, wfg, mbg, mfg) ==
    LET diff_means == FracSub(mfg, mbg)
    IN  FracMul(FracOfInt(wbg * wfg), FracMul(diff_means, diff_means))

OtsuDims == {d \in (0..MaxPixels) \X (0..MaxPixels) : d[1] * d[2] <= MaxPixels}

OtsuLocalsStart ==
    /\ N = 0
    /\ number = <<>>
    /\ intensity = 0
    /\ result = 0
    /\ best_var = NegInf
    /\ mean_bg = FracOfInt(0)
    /\ weight_bg = 0
    /\ mean_fg = FracOfInt(0)
    /\ weight_fg = 0
    /\ current_treshold = 0
    /\ treshold = "unset"
    /\ otsu_pc = "new"
    /\ otsu_raised = "none"

OtsuStart ==
    /\ \E d \in OtsuDims :
        /\ w = d[1]
        /\ h = d[2]
        /\ matrix \in [(0..(d[1] - 1)) \X (0..(d[2] - 1)) -> Levels]
    /\ OtsuLocalsStart

OtsuIdle ==
    /\ w = 0
    /\ h = 0
    /\ matrix = [xy \in {} |-> 0]
    /\ OtsuLocalsStart

\* __init__ lines 6-8 and get_treshold lines 30-37
BeginTreshold ==
    /\ otsu_pc = "new"
    /\ w * h # 0
    /\ N' = w * h
    /\ number' = generate_histogram(matrix, w, h)
    /\ intensity' = calc_total_intensity(number')
    /\ result' = 0
    /\ best_var' = NegInf
    /\ mean_bg' = FracOfInt(0)
    /\ weight_bg' = 0
    /\ mean_fg' = Frac(intensity', N')
    /\ weight_fg' = N'
    /\ current_treshold' = 0
    /\ otsu_pc' = "scan"
    /\ UNCHANGED <<matrix, w, h, treshold, otsu_raised>>
    /\ UNCHANGED otsuOthers

\* line 35 divides by total_pixels = 0
BeginTresholdRaises ==
    /\ otsu_pc = "new"
    /\ w * h = 0
    /\ N' = w * h
    /\ number' = generate_histogram(matrix, w, h)
    /\ intensity' = calc_total_intensity(number')
    /\ otsu_pc' = "raised"
    /\ otsu_raised' = "ZeroDivisionError"
    /\ UNCHANGED <<matrix, w, h, result, best_var, mean_bg, weight_bg, mean_fg,
                   weight_fg, current_treshold, treshold>>
    /\ UNCHANGED otsuOthers

\* one iteration of the outer while (lines 39-59); a break returns (line 61)
ScanStep ==
    /\ otsu_pc = "scan"
    /\ current_treshold < 255
    /\ LET variance == variance_at(weight_bg, weight_fg, mean_bg, mean_fg)
           better == FracGreater(variance, best_var)
           c == skip_empty(number, current_treshold)
           count == bucket(number, c)
           wbg == weight_bg + count
           wfg == weight_fg - count
       IN  /\ best_var' = IF better THEN variance ELSE best_var
           /\ result' = IF better THEN current_treshold ELSE result
           /\ IF c >= 255
              THEN /\ current_treshold' = c
                   /\ treshold' = result'
                   /\ otsu_pc' = "returned"
                   /\ UNCHANGED <<weight_bg, weight_fg, mean_bg, mean_fg, otsu_raised>>
              ELSE /\ weight_bg' = wbg
                   /\ weight_fg' = wfg
                   /\ mean_bg' = Frac(mean_bg[1] * wbg + count * c * mean_bg[2],
                                      mean_bg[2] * wbg)
                   /\ IF wfg = 0
                      THEN \* line 57 divides by weight_fg = 0
                           /\ current_treshold' = c
                           /\ otsu_pc' = "raised"
                           /\ otsu_raised' = "ZeroDivisionError"
                           /\ UNCHANGED <<mean_fg, treshold>>
                      ELSE /\ mean_fg' = Frac(mean_fg[1] * wfg - count * c * mean_fg[2],
                                              mean_fg[2] * wfg)
                           /\ current_treshold' = c + 1
                           /\ UNCHANGED <<treshold, otsu_pc, otsu_raised>>
    /\ UNCHANGED <<matrix, w, h, N, number, intensity>>
    /\ UNCHANGED otsuOthers

\* the outer while ends on its condition: line 61, then __init__ line 9
ReturnTreshold ==
    /\ otsu_pc = "scan"
    /\ current_treshold >= 255
    /\ treshold' = result
    /\ otsu_pc' = "returned"
    /\ UNCHANGED <<matrix, w, h, N, number, intensity, result, best_var, mean_bg,
                   weight_bg, mean_fg, weight_fg, current_treshold, otsu_raised>>
    /\ UNCHANGED otsuOthers

OtsuNext ==
    \/ BeginTreshold
    \/ BeginTresholdRaises
    \/ ScanStep
    \/ ReturnTreshold

(***************************************************************************)
(* ConnectedComponentLabeling.  cv2.connectedComponents(image, connectivity *)
(* = 8) returns (N, labels): every non-zero pixel of the image is          *)
(* foreground, labels is 0 on the background and 1..N-1 on the foreground, *)
(* one label per 8-connected component, and N counts the background label  *)
(* too.  Which component gets which label is the library's business: the   *)
(* model allows every numbering.                                           *)
(***************************************************************************)
MaxCells == 9

CclShapes == {d \in (1..MaxCells) \X (1..MaxCells) : d[1] * d[2] <= MaxCells}

PixelsOf(shape) == (0..(shape[1] - 1)) \X (0..(shape[2] - 1))

\* two 5x5 foreground squares, columns 0..4 and 6..10, in a 5x11 image
TwoSquares ==
    [shape |-> <<5, 11>>,
     data |-> [p \in PixelsOf(<<5, 11>>) |-> IF p[2] = 5 THEN 0 ELSE 255]]

\* self.labels = None
NoLabels == <<>>

Foreground(img) == {p \in PixelsOf(img.shape) : img.data[p] # 0}

\* 8-neighbor adjacency: the four orthogonal and the four diagonal neighbors
Adjacent8(p, q) ==
    /\ p # q
    /\ Abs(p[1] - q[1]) <= 1
    /\ Abs(p[2] - q[2]) <= 1

\* the pixels of F that a path of 8-adjacent pixels of F joins to S
RECURSIVE Grow(_, _)
Grow(S, F) ==
    LET more == {q \in F \ S : \E p \in S : Adjacent8(p, q)}
    IN  IF more = {} THEN S ELSE Grow(S \cup more, F)

\* the 8-connected components of the pixel set F
RECURSIVE ComponentsOf(_)
ComponentsOf(F) ==
    IF F = {} THEN {}
    ELSE LET p == CHOOSE q \in F : TRUE
             c == Grow({p}, F)
         IN  {c} \cup ComponentsOf(F \ c)

\* the numberings of the components with 1..K
Numberings(comps) ==
    {f \in [comps -> 1..Cardinality(comps)] :
        \A c, d \in comps : c # d => f[c] # f[d]}

\* the label map of cv2.connectedComponents under one numbering
LabelMap(img, comps, f) ==
    [p \in PixelsOf(img.shape) |->
        IF img.data[p] = 0 THEN 0
        ELSE f[CHOOSE c \in comps : p \in c]]

\* get_blobs with the loop one label short: range(1, self.num_labels - 1)
get_blobs_one_short(lbls, n) ==
    [label \in 1..(n - 2) |->
        [p \in DOMAIN lbls |-> IF lbls[p] = label THEN 255 ELSE 0]]

\* get_blobs, lines 23-26
get_blobs(lbls, n) ==
    [label \in 1..(n - 1) |->
        [p \in DOMAIN lbls |-> IF lbls[p] = label THEN 255 ELSE 0]]

\* count_blobs, lines 31-37
count_blobs(lbls) ==
    IF lbls = NoLabels THEN 0
    ELSE Cardinality({lbls[p] : p \in DOMAIN lbls}) - 1

CclLocalsStart ==
    /\ labels = NoLabels
    /\ num_labels = 0
    /\ blobs = <<>>
    /\ blobs_state = "none"
    /\ num_blobs = 0
    /\ num_blobs_state = "none"

CclStart ==
    /\ \/ \E shape \in CclShapes :
            binary_image \in [shape : {shape}, data : [PixelsOf(shape) -> {0, 255}]]
       \/ binary_image = TwoSquares
    /\ CclLocalsStart

CclIdle ==
    /\ binary_image = [shape |-> <<1, 1>>, data |-> [p \in PixelsOf(<<1, 1>>) |-> 0]]
    /\ CclLocalsStart

\* label_components, lines 17-18.  The library is deterministic: a second
\* call on the same image returns the labels of the first.
LabelComponents ==
    /\ LET comps == ComponentsOf(Foreground(binary_image)) IN
        /\ num_labels' = Cardinality(comps) + 1
        /\ IF labels # NoLabels
           THEN labels' = labels
           ELSE \E f \in Numberings(comps) :
                    labels' = LabelMap(binary_image, comps, f)
    /\ UNCHANGED <<binary_image, blobs, blobs_state, num_blobs, num_blobs_state>>
    /\ UNCHANGED cclOthers

GetBlobs ==
    /\ blobs' = get_blobs(labels, num_labels)
    /\ blobs_state' = IF labels = NoLabels THEN "unlabeled" ELSE "labeled"
    /\ UNCHANGED <<binary_image, labels, num_labels, num_blobs, num_blobs_state>>
    /\ UNCHANGED cclOthers

CountBlobs ==
    /\ num_blobs' = count_blobs(labels)
    /\ num_blobs_state' = IF labels = NoLabels THEN "unlabeled" ELSE "labeled"
    /\ UNCHANGED <<binary_image, labels, num_labels, blobs, blobs_state>>
    /\ UNCHANGED cclOthers

CclNext ==
    \/ LabelComponents
    \/ GetBlobs
    \/ CountBlobs

(***************************************************************************)
(* RadarSimulation.  The button handlers and the animation callback run on *)
(* the GUI thread, one at a time; apply_otsu_async runs on a thread of its *)
(* own and interleaves with them at every read and write of self.  A frame *)
(* is named by the list it is in and its index; a list has SimFrames       *)
(* frames (150 in the source).                                             *)
(***************************************************************************)
SimFrames == 3
MaxResumes == 1
MaxWorkers == 2

SimStart ==
    /\ sim_frames = 0
    /\ current_frame_idx = 0
    /\ animation_running = TRUE
    /\ otsu_applied = FALSE
    /\ image = <<"frame", 0, 0>>
    /\ title = <<"Radar Simulation">>
    /\ frame_seq = 0
    /\ timer = TRUE
    /\ main_pc = "idle"
    /\ workers = {}
    /\ accepted = <<>>

SimIdle == SimStart

\* apply_otsu, line 43
apply_otsu_returns == otsu_applied \/ ~animation_running

\* apply_otsu past its guard: lines 46-60, the thread started
ApplyOtsu ==
    /\ main_pc = "idle"
    /\ ~apply_otsu_returns
    /\ Cardinality(workers) < MaxWorkers
    /\ otsu_applied' = TRUE
    /\ workers' = workers \cup
            {[pc |-> "start", frames |-> -1, idx |-> -1,
              invoked |-> <<sim_frames, current_frame_idx>>]}
    /\ accepted' = <<sim_frames, current_frame_idx>>
    /\ UNCHANGED <<sim_frames, current_frame_idx, animation_running, image,
                   title, frame_seq, timer, main_pc>>
    /\ UNCHANGED simOthers

\* apply_otsu returns at line 44
ApplyOtsuReturns ==
    /\ main_pc = "idle"
    /\ apply_otsu_returns
    /\ UNCHANGED <<sim_frames, current_frame_idx, animation_running,
                   otsu_applied, image, title, frame_seq, timer, main_pc,
                   workers, accepted>>
    /\ UNCHANGED simOthers

\* apply_otsu_async, line 50: the thread loads self.frames
WorkerReadFrames ==
    /\ \E wk \in workers :
        /\ wk.pc = "start"
        /\ workers' = (workers \ {wk})
                \cup {[wk EXCEPT !.pc = "frames", !.frames = sim_frames]}
    /\ UNCHANGED <<sim_frames, current_frame_idx, animation_running,
                   otsu_applied, image, title, frame_seq, timer, main_pc,
                   accepted>>
    /\ UNCHANGED simOthers

\* line 50: the thread loads self.current_frame_idx and takes the frame
WorkerReadIndex ==
    /\ \E wk \in workers :
        /\ wk.pc = "frames"
        /\ workers' = (workers \ {wk})
                \cup {[wk EXCEPT !.pc = "frame", !.idx = current_frame_idx]}
    /\ UNCHANGED <<sim_frames, current_frame_idx, animation_running,
                   otsu_applied, image, title, frame_seq, timer, main_pc,
                   accepted>>
    /\ UNCHANGED simOthers

\* lines 51-57: the thread shows the binary image of its frame, and ends
WorkerDisplay ==
    /\ \E wk \in workers :
        /\ wk.pc = "frame"
        /\ image' = <<"otsu", wk.frames, wk.idx>>
        /\ workers' = workers \ {wk}
    /\ title' = <<"Otsu Threshold Applied">>
    /\ UNCHANGED <<sim_frames, current_frame_idx, animation_running,
                   otsu_applied, frame_seq, timer, main_pc, accepted>>
    /\ UNCHANGED simOthers

\* line 51: Histogram raises ZeroDivisionError (a frame with no pixel at 255),
\* and the thread ends
WorkerRaises ==
    /\ \E wk \in workers :
        /\ wk.pc = "frame"
        /\ workers' = workers \ {wk}
    /\ UNCHANGED <<sim_frames, current_frame_idx, animation_running,
                   otsu_applied, image, title, frame_seq, timer, main_pc,
                   accepted>>
    /\ UNCHANGED simOthers

\* update_frame with otsu_applied left out of its guard
update_frame_ignores_otsu == ~animation_running

\* update_frame, line 64
update_frame_returns == ~animation_running \/ otsu_applied

\* the animation timer calls update_frame with the next index of frame_seq
UpdateFrame ==
    /\ main_pc = "idle"
    /\ timer
    /\ frame_seq < SimFrames
    /\ frame_seq' = frame_seq + 1
    /\ IF update_frame_returns
       THEN UNCHANGED <<current_frame_idx, image>>
       ELSE /\ current_frame_idx' = frame_seq
            /\ image' = <<"frame", sim_frames, frame_seq>>
    /\ UNCHANGED <<sim_frames, animation_running, otsu_applied, title, timer,
                   main_pc, workers, accepted>>
    /\ UNCHANGED simOthers

\* frame_seq is exhausted and repeat=False (line 38): the timer stops
AnimationStops ==
    /\ main_pc = "idle"
    /\ timer
    /\ frame_seq = SimFrames
    /\ timer' = FALSE
    /\ UNCHANGED <<sim_frames, current_frame_idx, animation_running,
                   otsu_applied, image, title, frame_seq, main_pc, workers,
                   accepted>>
    /\ UNCHANGED simOthers

\* resume_simulation, lines 73-75: a new list of frames is assigned
ResumeSimulationFrames ==
    /\ main_pc = "idle"
    /\ sim_frames < MaxResumes
    /\ animation_running' = TRUE
    /\ sim_frames' = sim_frames + 1
    /\ main_pc' = "resume"
    /\ UNCHANGED <<current_frame_idx, otsu_applied, image, title, frame_seq,
                   timer, workers, accepted>>
    /\ UNCHANGED simOthers

\* resume_simulation, lines 76-79
ResumeSimulationRest ==
    /\ main_pc = "resume"
    /\ current_frame_idx' = 0
    /\ otsu_applied' = FALSE
    /\ frame_seq' = 0
    /\ timer' = TRUE
    /\ main_pc' = "idle"
    /\ UNCHANGED <<sim_frames, animation_running, image, title, workers,
                   accepted>>
    /\ UNCHANGED simOthers

\* count_blobs_in_otsu, line 99
count_blobs_in_otsu_returns == ~otsu_applied \/ ~animation_running

\* count_blobs_in_otsu past its guard: the current frame is thresholded,
\* labeled and counted, and the count goes into the title
CountBlobsInOtsu ==
    /\ main_pc = "idle"
    /\ ~count_blobs_in_otsu_returns
    /\ title' = <<"Labeled items amount", sim_frames, current_frame_idx>>
    /\ UNCHANGED <<sim_frames, current_frame_idx, animation_running,
                   otsu_applied, image, frame_seq, timer, main_pc, workers,
                   accepted>>
    /\ UNCHANGED simOthers

\* count_blobs_in_otsu returns at line 100
CountBlobsInOtsuReturns ==
    /\ main_pc = "idle"
    /\ count_blobs_in_otsu_returns
    /\ UNCHANGED <<sim_frames, current_frame_idx, animation_running,
                   otsu_applied, image, title, frame_seq, timer, main_pc,
                   workers, accepted>>
    /\ UNCHANGED simOthers

\* count_blobs_in_otsu past its guard, and line 103 raises ZeroDivisionError
\* (a frame with no pixel at 255): the handler ends there
CountBlobsInOtsuRaises ==
    /\ main_pc = "idle"
    /\ ~count_blobs_in_otsu_returns
    /\ UNCHANGED <<sim_frames, current_frame_idx, animation_running,
                   otsu_applied, image, title, frame_seq, timer, main_pc,
                   workers, accepted>>
    /\ UNCHANGED simOthers

SimNext ==
    \/ ApplyOtsu
    \/ ApplyOtsuReturns
    \/ WorkerReadFrames
    \/ WorkerReadIndex
    \/ WorkerDisplay
    \/ WorkerRaises
    \/ UpdateFrame
    \/ AnimationStops
    \/ ResumeSimulationFrames
    \/ ResumeSimulationRest
    \/ CountBlobsInOtsu
    \/ CountBlobsInOtsuReturns
    \/ CountBlobsInOtsuRaises

(***************************************************************************)
(* Specifications                                                          *)
(***************************************************************************)
GenInit == GenStart /\ NoiseIdle /\ OtsuIdle /\ CclIdle /\ SimIdle
SpecGen == GenInit /\ [][GenNext]_vars

BounceInit == BounceStart /\ NoiseIdle /\ OtsuIdle /\ CclIdle /\ SimIdle
SpecBounce == BounceInit /\ [][BounceNext]_vars

NoiseInit == GenIdle /\ NoiseStart /\ OtsuIdle /\ CclIdle /\ SimIdle
SpecNoise == NoiseInit /\ [][NoiseNext]_vars

OtsuInit == GenIdle /\ NoiseIdle /\ OtsuStart /\ CclIdle /\ SimIdle
SpecOtsu == OtsuInit /\ [][OtsuNext]_vars

CclInit == GenIdle /\ NoiseIdle /\ OtsuIdle /\ CclStart /\ SimIdle
SpecCCL == CclInit /\ [][CclNext]_vars

SimInit == GenIdle /\ NoiseIdle /\ OtsuIdle /\ CclIdle /\ SimStart
SpecSim == SimInit /\ [][SimNext]_vars

(***************************************************************************)
(* Properties                                                              *)
(***************************************************************************)
\* the configuration the documentation of the generator asks for: the radius
\* fits the frame, the velocity range is not empty, the initial count is
\* within max_objects
RadiusFits == 2 * object_radius < Min(frame_shape[1], frame_shape[2])
VelocityRangeOk == velocity_range[1] <= velocity_range[2]
InitialCountOk == initial_objects <= max_objects

\* C1: after every generated frame every object has
\* radius <= x <= W - radius - 1 and radius <= y <= H - radius - 1, where
\* (x, y) = (objects[i][0], objects[i][1]) is the point the shape is drawn at
\* and frame_shape = (H, W).  Stated for valid configurations only.
C1_PositionsWithinFrame ==
    (pc \in {"loop", "returned"} /\ frames >= 1
        /\ RadiusFits /\ VelocityRangeOk /\ InitialCountOk)
    => \A i \in 1..Len(objects) :
        /\ object_radius <= objects[i][1]
        /\ objects[i][1] <= frame_shape[2] - object_radius - 1
        /\ object_radius <= objects[i][2]
        /\ objects[i][2] <= frame_shape[1] - object_radius - 1

\* C2: generate_frames(n, k) returns exactly n frames, and across its ticks
\* the number of objects never decreases and never exceeds max_objects, for
\* every n and k.  Stated for a radius and a velocity range that are valid,
\* and for the object count after the first tick.
C2_FramesAndObjectCount ==
    /\ []((pc \in {"loop", "returned"} /\ frames >= 1
                /\ RadiusFits /\ VelocityRangeOk)
            => /\ Len(objects) <= max_objects
               /\ pc = "returned" => frames = num_frames)
    /\ [][Len(objects') >= Len(objects)]_vars

\* C3: a noise sample below 0 is stored as 0 and a sample above 255 as 255
\* (samples are in halves: 510 is 255.0).
C3_NoiseClipped ==
    \A i \in 1..Len(noise_frame) :
        /\ noise_samples[i] < 0 => noise_frame[i] = 0
        /\ noise_samples[i] > 510 => noise_frame[i] = 255

\* half of the pixels at intensity 30 and the other half at 200
Bimodal ==
    /\ w * h > 0
    /\ \A xy \in DOMAIN matrix : matrix[xy] \in {30, 200}
    /\ 2 * Cardinality({xy \in DOMAIN matrix : matrix[xy] = 30}) = w * h

\* C4: for a frame with half of its pixels at 30 and half at 200 threshold
\* selection returns a threshold t with 30 < t < 200.
C4_BimodalThresholdBetweenModes ==
    (Bimodal /\ otsu_pc \in {"returned", "raised"})
    => /\ otsu_pc = "returned"
       /\ treshold > 30
       /\ treshold < 200

\* one populated bucket, or no pixel at all
Degenerate ==
    \/ w * h = 0
    \/ \E v \in Intensities : \A xy \in DOMAIN matrix : matrix[xy] = v

\* C5: for a histogram with one populated bucket, and for a frame with no
\* pixels, threshold selection returns 0 and raises no error.
C5_DegenerateReturnsZero ==
    (Degenerate /\ otsu_pc \in {"returned", "raised"})
    => /\ otsu_pc = "returned"
       /\ treshold = 0

\* C6: the count label_components returns is the number of 8-connected
\* foreground components of the mask; it is 2 for the two 5x5 squares.
C6_CountIsComponentCount ==
    labels # NoLabels
    => /\ num_labels = Cardinality(ComponentsOf(Foreground(binary_image)))
       /\ binary_image = TwoSquares => num_labels = 2

\* the largest label of a label map
MaxLabel(lbls) ==
    CHOOSE m \in {lbls[p] : p \in DOMAIN lbls} :
        \A p \in DOMAIN lbls : lbls[p] <= m

\* C7: after label_components, count_blobs returns the largest label of the
\* label map when the mask has a foreground pixel, and 0 when it has none.
C7_CountBlobsIsMaxLabel ==
    num_blobs_state = "labeled"
    => IF Foreground(binary_image) = {}
       THEN num_blobs = 0
       ELSE num_blobs = MaxLabel(labels)

\* the foreground pixels of blob i
BlobPixels(i) == {p \in DOMAIN blobs[i] : blobs[i][p] # 0}

\* C8: after label_components, get_blobs returns one mask per label 1..K, the
\* masks are pairwise disjoint, and their union is the foreground of the
\* input mask.
C8_BlobsPartitionForeground ==
    blobs_state = "labeled"
    => LET K == Cardinality({labels[p] : p \in DOMAIN labels} \ {0}) IN
       /\ DOMAIN blobs = 1..K
       /\ \A i \in 1..K :
            /\ BlobPixels(i) = {p \in DOMAIN labels : labels[p] = i}
            /\ BlobPixels(i) # {}
       /\ \A i, j \in 1..K : i # j => BlobPixels(i) \cap BlobPixels(j) = {}
       /\ UNION {BlobPixels(i) : i \in 1..K} = Foreground(binary_image)

\* get_blobs has returned the two squares as two blobs
C8_Witness ==
    /\ blobs_state = "labeled"
    /\ binary_image = TwoSquares
    /\ Len(blobs) = 2

\* C9: when initial_count > max_objects, radius >= min(H, W) / 2 or
\* vmin > vmax, generate_frames fails before any step: it raises, no object is
\* created and no frame is generated.  Stated for an initial count of at
\* least one object, and for any exception in the place of ConfigurationError.
C9_InvalidConfigurationRejected ==
    (pc # "constructed" /\ initial_objects >= 1
        /\ ~(RadiusFits /\ VelocityRangeOk /\ InitialCountOk))
    => /\ pc = "raised"
       /\ objects = <<>>
       /\ frames = 0

\* C10: every object's shape is one of the shapes the caller configured.
\* Stated for valid configurations only.
C10_ShapesFromConfiguredSet ==
    (pc \in {"loop", "returned"} /\ RadiusFits /\ VelocityRangeOk /\ InitialCountOk)
    => \A i \in 1..Len(object_shapes) : object_shapes[i] \in Range(shapes_arg)

\* C11: in a 20x20 frame with radius 2, one object at (10, 10) with velocity
\* (5, 0) is at (15, 10) with velocity (5, 0) after the first step, and at
\* x = 17 with x velocity -5 after the second (y and its velocity unchanged).
C11_BounceScenario ==
    [][(pc = "loop" /\ t' = t + 1 /\ frame_shape = <<20, 20>>
            /\ object_radius = 2 /\ Len(objects) = 1)
        => /\ (t = 0 /\ objects[1] = <<10, 10>> /\ velocities[1] = <<5, 0>>)
                => (objects'[1] = <<15, 10>> /\ velocities'[1] = <<5, 0>>)
           /\ (t = 1 /\ objects[1] = <<15, 10>> /\ velocities[1] = <<5, 0>>)
                => (objects'[1] = <<17, 10>> /\ velocities'[1] = <<-5, 0>>)]_vars

\* the pixels below candidate c (the background class) and their intensity sum
PixelsBelow(c) ==
    Cardinality({xy \in DOMAIN matrix : matrix[xy] < c})
IntensityBelow(c) ==
    SumOver(number, {i \in DOMAIN number : i < c})

\* the between-class variance weight_bg * weight_fg * (mean_fg - mean_bg)^2 of
\* the split at candidate c, from the pixel counts and the mean intensities of
\* the two classes; 0 when a class is empty
BetweenClassVariance(c) ==
    LET wb == PixelsBelow(c)
        wf == w * h - wb
        sb == IntensityBelow(c)
        sf == calc_total_intensity(number) - sb
    IN  IF wb = 0 \/ wf = 0 THEN FracOfInt(0)
        ELSE Frac((sf * wb - sb * wf) * (sf * wb - sb * wf), wb * wf)

Candidates == 0..254

\* C12: a returned threshold maximizes the between-class variance of the
\* actual classes over the candidates 0..254, and is the lowest candidate
\* that does.
C12_ThresholdMaximizesVariance ==
    otsu_pc = "returned"
    => /\ treshold \in Candidates
       /\ \A c \in Candidates :
            /\ ~FracGreater(BetweenClassVariance(c), BetweenClassVariance(treshold))
            /\ c < treshold
                => FracGreater(BetweenClassVariance(treshold), BetweenClassVariance(c))

\* C13: for every frame the scan terminates and the selected threshold is an
\* integer in 0..255.  Stated for frames of at least one pixel: the scan
\* pointer advances with every iteration, and the scan ends with a threshold.
C13_ThresholdSelectedInRange ==
    /\ []((w * h > 0 /\ otsu_pc \in {"returned", "raised"})
            => (otsu_pc = "returned" /\ treshold \in 0..255))
    /\ [][(otsu_pc = "scan" /\ otsu_pc' = "scan")
            => current_treshold' > current_treshold]_vars

\* C15: in generate_frames(n, k) with k <= max_objects, a tick appends exactly
\* one object when t > 0, t is a multiple of 5 and the count is below
\* max_objects, and none otherwise; the objects already there keep their
\* index: object i after the tick is object i before it, moved.
C15_InjectionSchedule ==
    [][(pc = "loop" /\ t < num_frames /\ InitialCountOk)
        => /\ Len(objects') = Len(objects) + (IF injection_due THEN 1 ELSE 0)
           /\ Len(velocities') = Len(objects')
           /\ Len(object_shapes') = Len(objects')
           /\ \A i \in 1..Len(objects) :
                /\ <<objects'[i], velocities'[i]>> = move(objects[i], velocities[i])
                /\ object_shapes'[i] = object_shapes[i]]_vars

\* C16: an injected object is placed with x in [radius, W - radius) and y in
\* [radius, H - radius), where frame_shape = (H, W) and (x, y) is the drawn
\* point (new_object[0], new_object[1]).  Stated for valid configurations.
C16_InjectedWithinOwnAxis ==
    (new_object # <<>> /\ RadiusFits /\ VelocityRangeOk /\ InitialCountOk)
    => /\ object_radius <= new_object[1]
       /\ new_object[1] < frame_shape[2] - object_radius
       /\ object_radius <= new_object[2]
       /\ new_object[2] < frame_shape[1] - object_radius

\* C14: the frame a worker thread thresholds is the frame that was current
\* when apply_otsu started it, whatever update_frame and resume_simulation
\* do in between.
C14_WorkerThresholdsInvokedFrame ==
    \A wk \in workers :
        wk.pc = "frame" => <<wk.frames, wk.idx>> = wk.invoked

\* C17: at most one worker thread is live at any time.
C17_AtMostOneWorker == Cardinality(workers) <= 1

\* C18: while otsu_applied is true a call of update_frame (frame_seq moves
\* on by one) leaves current_frame_idx and the image as they are, and the
\* frame count_blobs_in_otsu labels is the one that was current when
\* apply_otsu was accepted; while otsu_applied is false no frame is labeled.
C18_FrozenWhileOtsuApplied ==
    [][/\ (frame_seq' = frame_seq + 1 /\ otsu_applied)
            => UNCHANGED <<current_frame_idx, image>>
       /\ (title' # title /\ title'[1] = "Labeled items amount")
            => /\ otsu_applied
               /\ title' = <<"Labeled items amount", accepted[1], accepted[2]>>
               /\ accepted = <<sim_frames, current_frame_idx>>
               /\ UNCHANGED <<sim_frames, current_frame_idx,
                              animation_running, otsu_applied, image,
                              frame_seq, timer, main_pc, workers, accepted>>]_vars

\* count_blobs_in_otsu has labeled the accepted frame, which is not the
\* first one, after a call of update_frame that otsu_applied turned away
C18_Witness ==
    /\ otsu_applied
    /\ accepted # <<>>
    /\ accepted[2] >= 1
    /\ title = <<"Labeled items amount", accepted[1], accepted[2]>>
    /\ current_frame_idx = accepted[2]
    /\ frame_seq > current_frame_idx + 1

=============================================================================
